---- MODULE Spec2Model ----
(***************************************************************************)
(* A model of ec2-topology.py: the run of main() from the enumeration of   *)
(* the cluster's instances to the writing of <slurm_path>/topology.conf.   *)
(*                                                                         *)
(* Python values are modelled as follows.                                  *)
(*   - a dict (and a defaultdict) is a record                              *)
(*       [kind |-> "defaultdict" or "dict", keys |-> <<k1, ...>>,          *)
(*        vals |-> <<v1, ...>>]                                            *)
(*     whose keys are kept in insertion order, as Python keeps them;       *)
(*   - a list of workload names is [kind |-> "list", items |-> <<...>>];   *)
(*   - a raised exception is [kind |-> "TypeError"];                       *)
(*   - a topology entry is a record with an InstanceId field and, when the *)
(*     service reports one, a NetworkNodes field (i.get('NetworkNodes') is *)
(*     None exactly when the field is missing);                            *)
(*   - an output line 'SwitchName=<k> <attr>=<a>,<b>,...' is the record    *)
(*       [SwitchName |-> k, attr |-> "Switches" or "Nodes",                *)
(*        csv |-> <<a, b, ...>>]                                           *)
(*     the comma-joined text being kept as the sequence of its fields.     *)
(***************************************************************************)
EXTENDS Integers, Sequences, FiniteSets, TLC

\* ------------------------------------------------------------------ bounds

\* The largest number of instances of a full run.
MaxInstances == 3

\* The largest number of instances of a fetch-only run (SpecFetch).
MaxFetch == 250

\* The batch size main() passes to chunk().
ChunkSize == 100

\* ------------------------------------------------------------- input data

InstanceIdTable == <<"i-1", "i-2", "i-3", "i-4", "i-5", "i-6">>
AddressTable == <<"10.0.0.1", "10.0.0.2", "10.0.0.3", "10.0.0.4", "10.0.0.5", "10.0.0.6">>
NodeNameTable == <<"n1", "n2", "n3", "n4", "n5", "n6">>

\* The network paths the topology service may report for an instance.
Networks ==
    { <<>>, <<"A">>, <<"A", "B">>, <<"A", "C">>, <<"B", "C">>, <<"A", "B", "D">> }

\* The content of topology.conf left by an earlier run.
PreviousTopology ==
    << [SwitchName |-> "old", attr |-> "Nodes", csv |-> <<"n0">>] >>

\* An instance as describe_instances returns it: the primary interface is the
\* one with DeviceIndex 0 on NetworkCardIndex 0, listed after a secondary one.
Ec2Instance(k) ==
    [InstanceId |-> InstanceIdTable[k],
     NetworkInterfaces |->
        << [DeviceIndex |-> 1, NetworkCardIndex |-> 0, PrivateIpAddress |-> "10.0.1.0"],
           [DeviceIndex |-> 0, NetworkCardIndex |-> 0, PrivateIpAddress |-> AddressTable[k]] >>]

\* The scheduler's node table: one node per registered address, after a stale
\* entry for the first of them.
SlurmNodes(registered) ==
    IF registered = 0
    THEN <<>>
    ELSE << [address |-> AddressTable[1], name |-> "stale"] >>
         \o [k \in 1..registered |->
                [address |-> AddressTable[k], name |-> NodeNameTable[k]]]

\* ---------------------------------------------------------------- helpers

Min(a, b) == IF a < b THEN a ELSE b

Range(s) == { s[i] : i \in 1..Len(s) }

IndexOf(s, x) == CHOOSE i \in 1..Len(s) : s[i] = x

Take(s, k) == SubSeq(s, 1, k)

Drop(s, k) == SubSeq(s, k + 1, Len(s))

\* ------------------------------------------------------------ python values

EmptyDefaultDict == [kind |-> "defaultdict", keys |-> <<>>, vals |-> <<>>]

TypeError == [kind |-> "TypeError"]

IsDict(v) == v.kind \in {"defaultdict", "dict"}

IsList(v) == v.kind = "list"

IsError(v) == v.kind = "TypeError"

\* len(v) of a dict or a list.
PyLen(v) == IF IsList(v) THEN Len(v.items) ELSE Len(v.keys)

HasKey(dic, k) == k \in Range(dic.keys)

GetItem(dic, k) == dic.vals[IndexOf(dic.keys, k)]

\* dic[k] = v: an existing key keeps its place, a new one goes last.
SetItem(dic, k, v) ==
    IF HasKey(dic, k)
    THEN [dic EXCEPT !.vals[IndexOf(dic.keys, k)] = v]
    ELSE [dic EXCEPT !.keys = Append(@, k), !.vals = Append(@, v)]

\* ---------------------------------------------------------- pure functions

\* chunk(l, size): [l[pos:pos + size] for pos in range(0, len(l), size)]
chunk(l, size) ==
    [c \in 1..((Len(l) + size - 1) \div size) |->
        SubSeq(l, (c - 1) * size + 1, Min(c * size, Len(l)))]

\* get_instance_primary_private_ip: the address of the first interface with
\* DeviceIndex 0 and NetworkCardIndex 0; None when the loop ends without one.
get_instance_primary_private_ip(ec2_instance) ==
    LET nis == ec2_instance.NetworkInterfaces
        primary == { j \in 1..Len(nis) :
                        nis[j].DeviceIndex = 0 /\ nis[j].NetworkCardIndex = 0 }
    IN  IF primary = {}
        THEN "None"
        ELSE nis[CHOOSE j \in primary : \A h \in primary : j <= h].PrivateIpAddress

\* get_slurm_node_name: node_name is assigned at every matching node, so the
\* last match is returned; with no match the return reads an unbound local.
get_slurm_node_name(nodes, ip_address) ==
    LET hits == { j \in 1..Len(nodes) : nodes[j].address = ip_address }
    IN  IF hits = {}
        THEN [kind |-> "UnboundLocalError"]
        ELSE [kind |-> "str",
              value |-> nodes[CHOOSE j \in hits : \A h \in hits : h <= j].name]

\* instances_slurm_hostnames_mapping: InstanceId -> scheduler node name; a
\* later instance with the same id overwrites an earlier one.
instances_slurm_hostnames_mapping(nodes, insts) ==
    LET name(j) == get_slurm_node_name(nodes, get_instance_primary_private_ip(insts[j]))
        ids == { insts[j].InstanceId : j \in 1..Len(insts) }
        last(id) == CHOOSE j \in 1..Len(insts) :
                        /\ insts[j].InstanceId = id
                        /\ \A h \in 1..Len(insts) : insts[h].InstanceId = id => h <= j
    IN  IF \E j \in 1..Len(insts) : name(j).kind = "UnboundLocalError"
        THEN [kind |-> "UnboundLocalError"]
        ELSE [kind |-> "dict", map |-> [id \in ids |-> name(last(id)).value]]

RECURSIVE add_instance_nested_overwrite(_, _, _, _, _)
\* add_instance_nested with the leaf branch returning [val] whatever is there.
add_instance_nested_overwrite(dic, val, network, max_level, cur_level) ==
    IF cur_level < max_level
    THEN IF IsList(dic)
         THEN TypeError
         ELSE LET k == network[cur_level + 1]
                  child == IF HasKey(dic, k) THEN GetItem(dic, k) ELSE EmptyDefaultDict
                  r == add_instance_nested_overwrite(child, val, network, max_level,
                                                     cur_level + 1)
              IN  IF IsError(r) THEN r ELSE SetItem(dic, k, r)
    ELSE [kind |-> "list", items |-> <<val>>]

RECURSIVE add_instance_nested(_, _, _, _, _)
\* add_instance_nested(dic, val, network, max_level, cur_level).  The value
\* is what the call returns, or TypeError when it raises.  Below max_level
\* the returned dic is the argument itself, changed in place.
\*   - dic[network[cur_level]] on a list raises (list indices must be
\*     integers); on a defaultdict it creates the missing key;
\*   - dic + [val] raises when dic is a non-empty defaultdict.
add_instance_nested(dic, val, network, max_level, cur_level) ==
    IF cur_level < max_level
    THEN IF IsList(dic)
         THEN TypeError
         ELSE LET k == network[cur_level + 1]
                  child == IF HasKey(dic, k) THEN GetItem(dic, k) ELSE EmptyDefaultDict
                  r == add_instance_nested(child, val, network, max_level, cur_level + 1)
              IN  IF IsError(r) THEN r ELSE SetItem(dic, k, r)
    ELSE IF PyLen(dic) = 0
         THEN [kind |-> "list", items |-> <<val>>]
         ELSE IF IsList(dic)
              THEN [kind |-> "list", items |-> Append(dic.items, val)]
              ELSE TypeError

RECURSIVE JsonRoundTrip(_)
\* json.loads(json.dumps(switches)): every defaultdict comes back a plain
\* dict with its keys in the same order, every list a list.
JsonRoundTrip(v) ==
    IF IsList(v)
    THEN v
    ELSE [kind |-> "dict", keys |-> v.keys,
          vals |-> [j \in 1..Len(v.vals) |-> JsonRoundTrip(v.vals[j])]]

SwitchesLine(k, v) == [SwitchName |-> k, attr |-> "Switches", csv |-> v.keys]

NodesLine(k, v) == [SwitchName |-> k, attr |-> "Nodes", csv |-> v.items]

RECURSIVE recurse_topo(_), RecurseItems(_, _)
\* RecurseItems with a switch's own line written after its children's.
RecurseItemsChildrenFirst(topology, j) ==
    IF j > Len(topology.keys)
    THEN <<>>
    ELSE LET k == topology.keys[j]
             v == topology.vals[j]
         IN  (IF IsDict(v)
              THEN recurse_topo(v) \o <<SwitchesLine(k, v)>>
              ELSE <<NodesLine(k, v)>>)
             \o RecurseItems(topology, j + 1)

\* The lines recurse_topo writes for the items of topology from the j-th on.
RecurseItems(topology, j) ==
    IF j > Len(topology.keys)
    THEN <<>>
    ELSE LET k == topology.keys[j]
             v == topology.vals[j]
         IN  (IF IsDict(v)
              THEN <<SwitchesLine(k, v)>> \o recurse_topo(v)
              ELSE <<NodesLine(k, v)>>)
             \o RecurseItems(topology, j + 1)

\* recurse_topo(file, topology): the lines written to file, in order.
recurse_topo(topology) == RecurseItems(topology, 1)

\* -------------------------------------------------------------------- state

VARIABLES
    ec2,                        \* the cloud: [instances, topology, pageSizes]
    SLURM_NODES,                \* the scheduler's node table, read at import
    pc,                         \* where main() is
    error,                      \* the step that raised, "none" while running
    instances,                  \* main: instances
    ci,                         \* main: the chunk the fetch loop is at
    response,                   \* get_instances_topology: response
    topo_instances,             \* get_instances_topology: instances
    calls,                      \* describe_instance_topology calls, per chunk
    instances_topology,         \* main: instances_topology
    instances_slurm_hostnames,  \* main: instances_slurm_hostnames
    switches,                   \* main: switches
    bi,                         \* main: the entry the build loop is at
    wi,                         \* recurse_topo: the line to be written next
    file,                       \* topology.conf as a reader sees it
    fbuf                        \* lines written to f and not yet flushed

vars ==
    << ec2, SLURM_NODES, pc, error, instances, ci, response, topo_instances, calls,
       instances_topology, instances_slurm_hostnames, switches, bi, wi, file, fbuf >>

fetchVars == << instances, ci, response, topo_instances, calls, instances_topology >>

buildVars == << instances_slurm_hostnames, switches, bi >>

fileVars == << wi, file, fbuf >>

envVars == << ec2, SLURM_NODES >>

\* The topology entry of instance k, with the network path nw (a set holding
\* the path, or empty when the service reports no NetworkNodes).
TopologyEntry(k, nw) ==
    IF nw = {}
    THEN [InstanceId |-> InstanceIdTable[k]]
    ELSE [InstanceId |-> InstanceIdTable[k], NetworkNodes |-> CHOOSE p \in nw : TRUE]

InitProgram ==
    /\ pc = "get_instances"
    /\ error = "none"
    /\ instances = <<>>
    /\ ci = 1
    /\ response = [Instances |-> <<>>]
    /\ topo_instances = <<>>
    /\ calls = <<>>
    /\ instances_topology = <<>>
    /\ instances_slurm_hostnames = [kind |-> "dict", map |-> <<>>]
    /\ switches = EmptyDefaultDict
    /\ bi = 1
    /\ wi = 1
    /\ file = PreviousTopology
    /\ fbuf = <<>>

\* Any cluster of at most MaxInstances instances, each with one of the paths
\* of Networks or none, all of them registered with the scheduler or all but
\* the last.
InitCluster ==
    \E n \in 0..MaxInstances :
    \E nw \in [1..n -> {{}} \cup {{p} : p \in Networks}] :
    \E registered \in {n - 1, n} :
        /\ registered >= 0
        /\ ec2 = [instances |-> [k \in 1..n |-> Ec2Instance(k)],
                  topology |-> [k \in 1..n |-> TopologyEntry(k, nw[k])],
                  pageSizes |-> {1, 2}]
        /\ SLURM_NODES = SlurmNodes(registered)

\* The cluster of the documented example: n1 and n2 under A/B/C, n3 under A/D/E.
InitExample ==
    /\ ec2 = [instances |-> [k \in 1..3 |-> Ec2Instance(k)],
              topology |-> << TopologyEntry(1, {<<"A", "B", "C">>}),
                              TopologyEntry(2, {<<"A", "B", "C">>}),
                              TopologyEntry(3, {<<"A", "D", "E">>}) >>,
              pageSizes |-> {1, 2}]
    /\ SLURM_NODES = SlurmNodes(3)

Init == InitProgram /\ (InitCluster \/ InitExample)

\* ------------------------------------------------------------------ actions

\* The entries the topology service holds for the instances ids, in order.
TopologyOf(ids) ==
    [j \in 1..Len(ids) |->
        ec2.topology[CHOOSE k \in 1..Len(ec2.instances) :
                        ec2.instances[k].InstanceId = ids[j]]]

\* One response of describe_instance_topology: the next size entries of rest
\* (all of them when fewer are left), with a NextToken standing for what is
\* left.  The last entries may come with a token too (more); the page after
\* them is then empty and has none.
Page(rest, size, more) ==
    LET n == Min(size, Len(rest))
    IN  IF Drop(rest, n) # <<>> \/ (more /\ n > 0)
        THEN [Instances |-> Take(rest, n), NextToken |-> Drop(rest, n)]
        ELSE [Instances |-> Take(rest, n)]

Chunks == chunk(instances, ChunkSize)

ChunkIds == [j \in 1..Len(Chunks[ci]) |-> Chunks[ci][j].InstanceId]

\* main: instances = get_instances(...); quit() when there are none.
GetInstances ==
    /\ pc = "get_instances"
    /\ instances' = ec2.instances
    /\ pc' = IF ec2.instances = <<>> THEN "quit" ELSE "fetch"
    /\ UNCHANGED << envVars, error, ci, response, topo_instances, calls,
                    instances_topology, buildVars, fileVars >>

\* get_instances: describe_instances raises (the except clause names
\* botocore, which is not imported, so nothing is handled).
GetInstancesFails ==
    /\ pc = "get_instances"
    /\ pc' = "aborted"
    /\ error' = "get_instances"
    /\ UNCHANGED << envVars, fetchVars, buildVars, fileVars >>

\* get_instances_topology, up to the while: the first call for chunk ci.
DescribeInstanceTopology ==
    /\ pc = "fetch"
    /\ ci <= Len(Chunks)
    /\ \E size \in ec2.pageSizes, more \in BOOLEAN :
          response' = Page(TopologyOf(ChunkIds), size, more)
    /\ topo_instances' = response'.Instances
    /\ calls' = Append(calls, 1)
    /\ pc' = "paging"
    /\ UNCHANGED << envVars, error, instances, ci, instances_topology,
                    buildVars, fileVars >>

\* NextPage with the gathered list replaced by the page, not extended by it.
NextPageKeepsLast ==
    /\ pc = "paging"
    /\ "NextToken" \in DOMAIN response
    /\ \E size \in ec2.pageSizes, more \in BOOLEAN :
          response' = Page(response.NextToken, size, more)
    /\ topo_instances' = response'.Instances
    /\ calls' = [calls EXCEPT ![ci] = @ + 1]
    /\ UNCHANGED << envVars, pc, error, instances, ci, instances_topology,
                    buildVars, fileVars >>

\* get_instances_topology: one turn of the while loop.
NextPage ==
    /\ pc = "paging"
    /\ "NextToken" \in DOMAIN response
    /\ \E size \in ec2.pageSizes, more \in BOOLEAN :
          response' = Page(response.NextToken, size, more)
    /\ topo_instances' = topo_instances \o response'.Instances
    /\ calls' = [calls EXCEPT ![ci] = @ + 1]
    /\ UNCHANGED << envVars, pc, error, instances, ci, instances_topology,
                    buildVars, fileVars >>

\* get_instances_topology returns; main: instances_topology += ...
ReturnTopology ==
    /\ pc = "paging"
    /\ "NextToken" \notin DOMAIN response
    /\ instances_topology' = instances_topology \o topo_instances
    /\ ci' = ci + 1
    /\ pc' = "fetch"
    /\ UNCHANGED << envVars, error, instances, response, topo_instances, calls,
                    buildVars, fileVars >>

\* A describe_instance_topology call raises.
FetchFails ==
    /\ \/ pc = "fetch" /\ ci <= Len(Chunks)
       \/ pc = "paging" /\ "NextToken" \in DOMAIN response
    /\ pc' = "aborted"
    /\ error' = "fetch"
    /\ UNCHANGED << envVars, fetchVars, buildVars, fileVars >>

\* MapHostnames in a main that opens topology.conf before it builds the tree.
MapHostnamesOpensFile ==
    /\ pc = "fetch"
    /\ ci > Len(Chunks)
    /\ LET m == instances_slurm_hostnames_mapping(SLURM_NODES, instances)
       IN  IF m.kind = "UnboundLocalError"
           THEN /\ pc' = "aborted"
                /\ error' = "get_slurm_node_name"
                /\ UNCHANGED << instances_slurm_hostnames, switches, file >>
           ELSE /\ pc' = "build"
                /\ instances_slurm_hostnames' = m
                /\ switches' = EmptyDefaultDict
                /\ file' = <<>>
                /\ UNCHANGED error
    /\ bi' = 1
    /\ UNCHANGED << envVars, fetchVars, wi, fbuf >>

\* main: instances_slurm_hostnames = instances_slurm_hostnames_mapping(instances)
\* and switches = create_nested_dict(), once the fetch loop has ended.  An
\* address with no scheduler node makes get_slurm_node_name raise.
MapHostnames ==
    /\ pc = "fetch"
    /\ ci > Len(Chunks)
    /\ LET m == instances_slurm_hostnames_mapping(SLURM_NODES, instances)
       IN  IF m.kind = "UnboundLocalError"
           THEN /\ pc' = "aborted"
                /\ error' = "get_slurm_node_name"
                /\ UNCHANGED << instances_slurm_hostnames, switches >>
           ELSE /\ pc' = "build"
                /\ instances_slurm_hostnames' = m
                /\ switches' = EmptyDefaultDict
                /\ UNCHANGED error
    /\ bi' = 1
    /\ UNCHANGED << envVars, fetchVars, fileVars >>

\* WorkloadName in a main that inserts the cloud's identifier.
WorkloadNameIsInstanceId(i) == i.InstanceId

\* main: the value inserted for topology entry i.  (The service returns
\* entries for the requested instances only, so the key is always there.)
WorkloadName(i) == instances_slurm_hostnames.map[i.InstanceId]

\* main: one turn of the build loop.  The value add_instance_nested returns
\* is dropped: switches changes only where the call changed it in place,
\* which a call with max_level 0 never does.
BuildStep ==
    /\ pc = "build"
    /\ bi <= Len(instances_topology)
    /\ LET i == instances_topology[bi]
       IN  IF "NetworkNodes" \notin DOMAIN i
           THEN /\ bi' = bi + 1
                /\ UNCHANGED << pc, error, switches >>
           ELSE LET network == i.NetworkNodes
                    nb_network_level == Len(network)
                    r == add_instance_nested(switches, WorkloadName(i), network,
                                             nb_network_level, 0)
                IN  IF IsError(r)
                    THEN /\ pc' = "aborted"
                         /\ error' = "add_instance_nested"
                         /\ UNCHANGED << switches, bi >>
                    ELSE /\ switches' = IF nb_network_level > 0 THEN r ELSE switches
                         /\ bi' = bi + 1
                         /\ UNCHANGED << pc, error >>
    /\ UNCHANGED << envVars, fetchVars, instances_slurm_hostnames, fileVars >>

\* main: switches = json.loads(json.dumps(switches)), after the build loop.
Dump ==
    /\ pc = "build"
    /\ bi > Len(instances_topology)
    /\ switches' = JsonRoundTrip(switches)
    /\ pc' = "write_topo"
    /\ UNCHANGED << envVars, error, fetchVars, instances_slurm_hostnames, bi, fileVars >>

\* write_topo: f = open(slurm_path + '/topology.conf', 'w+') truncates the
\* file in place.
OpenFile ==
    /\ pc = "write_topo"
    /\ file' = <<>>
    /\ fbuf' = <<>>
    /\ wi' = 1
    /\ pc' = "recurse_topo"
    /\ UNCHANGED << envVars, error, fetchVars, buildVars >>

\* write_topo: open raises (no such directory, no permission).
OpenFails ==
    /\ pc = "write_topo"
    /\ pc' = "aborted"
    /\ error' = "open"
    /\ UNCHANGED << envVars, fetchVars, buildVars, fileVars >>

\* recurse_topo: one file.write.  The line goes to f's buffer; the buffer is
\* written out when it is full, which depends on its size.
WriteLine ==
    /\ pc = "recurse_topo"
    /\ wi <= Len(recurse_topo(switches))
    /\ \E flush \in BOOLEAN :
          LET buffered == Append(fbuf, recurse_topo(switches)[wi])
          IN  IF flush
              THEN file' = file \o buffered /\ fbuf' = <<>>
              ELSE file' = file /\ fbuf' = buffered
    /\ wi' = wi + 1
    /\ UNCHANGED << envVars, pc, error, fetchVars, buildVars >>

\* write_topo: f.close(), then main logs 'End'.
CloseFile ==
    /\ pc = "recurse_topo"
    /\ wi > Len(recurse_topo(switches))
    /\ file' = file \o fbuf
    /\ fbuf' = <<>>
    /\ pc' = "done"
    /\ UNCHANGED << envVars, error, fetchVars, buildVars, wi >>

\* The run stops between open and close (a write raises, the process is
\* killed): what is buffered may or may not reach the file.
WriteFails ==
    /\ pc = "recurse_topo"
    /\ \E flushed \in BOOLEAN :
          file' = IF flushed THEN file \o fbuf ELSE file
    /\ fbuf' = <<>>
    /\ pc' = "aborted"
    /\ error' = "write"
    /\ UNCHANGED << envVars, fetchVars, buildVars, wi >>

Fetch ==
    \/ GetInstances
    \/ GetInstancesFails
    \/ DescribeInstanceTopology
    \/ NextPage
    \/ ReturnTopology
    \/ FetchFails

Next ==
    \/ Fetch
    \/ MapHostnames
    \/ BuildStep
    \/ Dump
    \/ OpenFile
    \/ OpenFails
    \/ WriteLine
    \/ CloseFile
    \/ WriteFails

Spec == Init /\ [][Next]_vars

\* The fetch alone, for clusters of up to MaxFetch instances: an instance is
\* its number and its topology entry carries nothing else.
InitFetch ==
    /\ InitProgram
    /\ \E n \in 0..MaxFetch :
          ec2 = [instances |-> [k \in 1..n |-> [InstanceId |-> k]],
                 topology |-> [k \in 1..n |-> [InstanceId |-> k]],
                 pageSizes |-> {50, 100}]
    /\ SLURM_NODES = <<>>

SpecFetch == InitFetch /\ [][Fetch]_vars

\* ------------------------------------------------- vocabulary of the claims

HasNetwork(e) == "NetworkNodes" \in DOMAIN e

\* main has entered the build loop (and bi - 1 entries are behind it).
InBuild ==
    \/ pc \in {"build", "write_topo", "recurse_topo", "done"}
    \/ pc = "aborted" /\ error \in {"add_instance_nested", "open", "write"}

\* main is in the build loop, or has just left it: every tree a run builds
\* is the tree of such a state.
Building == pc \in {"build", "write_topo"}

\* The build loop has ended without an error.
Built ==
    \/ pc \in {"write_topo", "recurse_topo", "done"}
    \/ pc = "aborted" /\ error \in {"open", "write"}

\* The scheduler's name of the instance of entry e, read off the input tables.
NodeNameOf(e) == NodeNameTable[IndexOf(InstanceIdTable, e.InstanceId)]

\* The records handed to add_instance_nested so far, in insertion order.
Inserted ==
    SelectSeq([j \in 1..(bi - 1) |->
                  IF HasNetwork(instances_topology[j])
                  THEN [name |-> NodeNameOf(instances_topology[j]),
                        path |-> instances_topology[j].NetworkNodes,
                        real |-> TRUE]
                  ELSE [name |-> "", path |-> <<>>, real |-> FALSE]],
              LAMBDA r : r.real)

RECURSIVE NodePaths(_, _)
\* The path of every node below the dict t, one entry per node.
NodePaths(t, prefix) ==
    LET Sub(j) == <<Append(prefix, t.keys[j])>>
                  \o (IF IsDict(t.vals[j])
                      THEN NodePaths(t.vals[j], Append(prefix, t.keys[j]))
                      ELSE <<>>)
        F[j \in 0..Len(t.keys)] == IF j = 0 THEN <<>> ELSE F[j - 1] \o Sub(j)
    IN  F[Len(t.keys)]

RECURSIVE NodeAt(_, _)
\* The node at path below t, or a value of kind "missing".
NodeAt(t, path) ==
    IF path = <<>>
    THEN t
    ELSE IF IsDict(t) /\ HasKey(t, Head(path))
         THEN NodeAt(GetItem(t, Head(path)), Tail(path))
         ELSE [kind |-> "missing"]

NoDuplicates(s) == \A i, j \in 1..Len(s) : s[i] = s[j] => i = j

\* The non-empty prefixes of the paths of the records recs.
Prefixes(recs) ==
    UNION { { Take(recs[j].path, m) : m \in 1..Len(recs[j].path) } : j \in 1..Len(recs) }

IsPrefix(q, p) == Len(q) <= Len(p) /\ Take(p, Len(q)) = q

\* The names of the records of recs with path p, in the order of recs.
NamesAt(recs, p) ==
    LET hits == SelectSeq(recs, LAMBDA r : r.path = p)
    IN  [j \in 1..Len(hits) |-> hits[j].name]

\* --------------------------------------------------------------------- C1

\* C1: at every turn of the build loop, when the records inserted so far all
\* have non-empty paths of one length, the tree has exactly one node per
\* distinct non-empty prefix of their paths, and the leaf at each full path is
\* a list holding the names of the records with that path, one per record, in
\* insertion order.
C1_MergeKeepsEveryRecord ==
    (/\ Building
     /\ \A j, h \in 1..Len(Inserted) :
          Len(Inserted[j].path) > 0 /\ Len(Inserted[j].path) = Len(Inserted[h].path))
    => LET paths == NodePaths(switches, <<>>)
       IN  /\ NoDuplicates(paths)
           /\ Range(paths) = Prefixes(Inserted)
           /\ \A j \in 1..Len(Inserted) :
                LET leaf == NodeAt(switches, Inserted[j].path)
                IN  /\ IsList(leaf)
                    /\ leaf.items = NamesAt(Inserted, Inserted[j].path)

\* Three records of one depth are in: two share a full path, the third shares
\* only its first switch with them.
C1_Witness ==
    /\ pc = "done"
    /\ Len(Inserted) = 3
    /\ \A j \in 1..3 : Len(Inserted[j].path) = 2
    /\ Inserted[1].path = Inserted[3].path
    /\ Inserted[2].path # Inserted[1].path
    /\ Inserted[2].path[1] = Inserted[1].path[1]

\* --------------------------------------------------------------------- C3

\* The first record of recs whose path goes through the node at path q.
FirstThrough(recs, q) ==
    CHOOSE j \in 1..Len(recs) :
        /\ IsPrefix(q, recs[j].path)
        /\ \A h \in 1..Len(recs) : IsPrefix(q, recs[h].path) => j <= h

\* The keys below the node at path p, in the order records first brought them.
ChildKeysInOrder(recs, p) ==
    LET kids == { q \in Prefixes(recs) : Len(q) = Len(p) + 1 /\ IsPrefix(p, q) }
        Earlier(q) == { r \in kids : FirstThrough(recs, r) < FirstThrough(recs, q) }
    IN  [j \in 1..Cardinality(kids) |->
            LET q == CHOOSE r \in kids : Cardinality(Earlier(r)) = j - 1
            IN  q[Len(q)]]

\* Node q comes before node p in pre-order: q is above p, or the two part
\* ways below a common node and q's side was inserted first.
PreOrderBefore(recs, q, p) ==
    \/ q # p /\ IsPrefix(q, p)
    \/ \E m \in 1..Min(Len(q), Len(p)) :
          /\ Take(q, m - 1) = Take(p, m - 1)
          /\ q[m] # p[m]
          /\ FirstThrough(recs, Take(q, m)) < FirstThrough(recs, Take(p, m))

\* The line the node at path p is to produce.
ExpectedLine(recs, p) ==
    IF \E j \in 1..Len(recs) : recs[j].path = p
    THEN [SwitchName |-> p[Len(p)], attr |-> "Nodes", csv |-> NamesAt(recs, p)]
    ELSE [SwitchName |-> p[Len(p)], attr |-> "Switches",
          csv |-> ChildKeysInOrder(recs, p)]

\* The records that reached the tree: an empty path leaves nothing in it.
InTree == SelectSeq(Inserted, LAMBDA r : r.path # <<>>)

ExampleLines ==
    << [SwitchName |-> "A", attr |-> "Switches", csv |-> <<"B", "D">>],
       [SwitchName |-> "B", attr |-> "Switches", csv |-> <<"C">>],
       [SwitchName |-> "C", attr |-> "Nodes", csv |-> <<"n1", "n2">>],
       [SwitchName |-> "D", attr |-> "Switches", csv |-> <<"E">>],
       [SwitchName |-> "E", attr |-> "Nodes", csv |-> <<"n3">>] >>

\* C3: for the tree handed to write_topo, recurse_topo writes one line per node
\* below the root and none for the root, in pre-order: the line of the node at path p is
\* at place 1 + (the number of nodes before p in pre-order), a switch's line
\* lists its child keys in first-insertion order and a leaf group's line its
\* names in arrival order, whatever the depths; a completed run leaves exactly
\* these lines in the file, and the run on the documented records n1 and n2 at
\* A/B/C, n3 at A/D/E leaves exactly the five documented lines.
C3_PreOrderLines ==
    /\ pc = "write_topo" =>
         LET lines == recurse_topo(switches)
             nodes == Prefixes(InTree)
         IN  /\ Len(lines) = Cardinality(nodes)
             /\ \A p \in nodes :
                  lines[1 + Cardinality({ q \in nodes : PreOrderBefore(InTree, q, p) })]
                      = ExpectedLine(InTree, p)
    /\ pc = "done" => file = recurse_topo(switches)
    /\ (/\ pc = "done"
        /\ Len(instances_topology) = 3
        /\ \A j \in 1..3 : HasNetwork(instances_topology[j])
        /\ [h \in 1..3 |-> instances_topology[h].NetworkNodes]
               = << <<"A", "B", "C">>, <<"A", "B", "C">>, <<"A", "D", "E">> >>)
       => file = ExampleLines

\* The run on the documented records has written its five lines.
C3_Witness ==
    /\ pc = "done"
    /\ file = ExampleLines
    /\ recurse_topo(switches) = ExampleLines
    /\ Len(Inserted) = 3

\* --------------------------------------------------------------------- C4

\* C4: a run that fails in the enumeration of the instances, in a topology
\* fetch or one of its pages, in the resolution of an address or in a tree
\* insert has not opened topology.conf: the file is as it was before the run
\* (and so it is in every state before the open, and when the open fails).
C4_FailureBeforeOpenKeepsFile ==
    /\ (pc = "aborted" /\ error \in { "get_instances", "fetch", "get_slurm_node_name",
                                      "add_instance_nested", "open" })
       => file = PreviousTopology /\ fbuf = <<>>
    /\ pc \in {"get_instances", "quit", "fetch", "paging", "build", "write_topo"}
       => file = PreviousTopology /\ fbuf = <<>>

\* An insert raised after an earlier one had gone in, and the file is untouched.
C4_Witness ==
    /\ pc = "aborted"
    /\ error = "add_instance_nested"
    /\ bi > 1
    /\ PyLen(switches) > 0
    /\ file = PreviousTopology

\* --------------------------------------------------------------------- C7

\* The entries of the first m instances, as the service holds them.
EntriesUpTo(m) == [j \in 1..m |-> ec2.topology[j]]

\* C7: chunk(instances, 100) is ceil(n/100) consecutive non-empty chunks of at
\* most 100 instances whose concatenation is instances (100, 100, 50 for 250);
\* while a chunk is fetched, what get_instances_topology has gathered followed
\* by what the service has still to return is the chunk's entries in order, so
\* that it returns the concatenation of all the pages; and between chunks
\* instances_topology holds the entries of the chunks done, each once, in order.
C7_BatchFidelity ==
    LET n == Len(instances)
        cs == chunk(instances, ChunkSize)
        done == Min((ci - 1) * 100, n)
    IN  /\ Len(cs) * 100 >= n
        /\ (Len(cs) - 1) * 100 < n \/ n = 0
        /\ \A c \in 1..Len(cs) : Len(cs[c]) >= 1 /\ Len(cs[c]) <= 100
        /\ \A k \in 1..n :
              /\ ((k - 1) % 100) + 1 <= Len(cs[((k - 1) \div 100) + 1])
              /\ cs[((k - 1) \div 100) + 1][((k - 1) % 100) + 1] = instances[k]
        /\ \A c \in 1..Len(cs) : c < Len(cs) => Len(cs[c]) = 100
        /\ n = 250 => [c \in 1..Len(cs) |-> Len(cs[c])] = <<100, 100, 50>>
        /\ pc = "paging" =>
              /\ instances_topology = EntriesUpTo(done)
              /\ instances_topology \o topo_instances
                   \o (IF "NextToken" \in DOMAIN response THEN response.NextToken ELSE <<>>)
                   = EntriesUpTo(Min(ci * 100, n))
        /\ pc = "fetch" =>
              /\ instances_topology = EntriesUpTo(done)
              /\ ci > Len(cs) => \A k \in 1..n :
                    Cardinality({ j \in 1..Len(instances_topology) :
                                     instances_topology[j].InstanceId
                                         = instances[k].InstanceId }) = 1

\* 250 instances are fetched: three chunks, of which the first took more
\* calls than the second, and all 250 entries are in.
C7_Witness ==
    /\ pc = "fetch"
    /\ Len(instances) = 250
    /\ ci = 4
    /\ Len(calls) = 3
    /\ calls[1] > calls[2]
    /\ Len(instances_topology) = 250

\* -------------------------------------------------------------------- C10

RECURSIVE LeafNames(_)
\* The names held by the leaf groups below the dict t, one entry per holding.
LeafNames(t) ==
    LET Sub(j) == IF IsDict(t.vals[j]) THEN LeafNames(t.vals[j]) ELSE t.vals[j].items
        F[j \in 0..Len(t.keys)] == IF j = 0 THEN <<>> ELSE F[j - 1] \o Sub(j)
    IN  F[Len(t.keys)]

Count(s, x) == Cardinality({ j \in 1..Len(s) : s[j] = x })

\* The names on the Nodes lines of the file, one entry per mention.
FileNames ==
    LET Sub(j) == IF file[j].attr = "Nodes" THEN file[j].csv ELSE <<>>
        F[j \in 0..Len(file)] == IF j = 0 THEN <<>> ELSE F[j - 1] \o Sub(j)
    IN  F[Len(file)]

\* Everything the file mentions: switch names and the fields of every line.
FileWords ==
    UNION { {file[j].SwitchName} \cup Range(file[j].csv) : j \in 1..Len(file) }

\* C10: in the build loop an entry without NetworkNodes is passed over: the
\* tree holds its node name nowhere, the loop goes on (an abort of the loop is
\* always at an entry that has NetworkNodes), and the file of a completed run
\* mentions that name in no line; an entry with a non-empty NetworkNodes has
\* its scheduler node name, and not its instance id, in exactly one leaf
\* group, the one at its path, and on exactly one Nodes line of the file.
C10_MissingNetworkSkipped ==
    /\ Building =>
         \A j \in 1..(bi - 1) :
            LET e == instances_topology[j]
                names == LeafNames(switches)
            IN  /\ ~HasNetwork(e) => Count(names, NodeNameOf(e)) = 0
                /\ (HasNetwork(e) /\ e.NetworkNodes # <<>>) =>
                      /\ Count(names, NodeNameOf(e)) = 1
                      /\ IsList(NodeAt(switches, e.NetworkNodes))
                      /\ NodeNameOf(e) \in Range(NodeAt(switches, e.NetworkNodes).items)
                /\ Count(names, e.InstanceId) = 0
    /\ (pc = "aborted" /\ error = "add_instance_nested")
       => HasNetwork(instances_topology[bi])
    /\ pc = "done" =>
         \A j \in 1..Len(instances_topology) :
            LET e == instances_topology[j]
            IN  /\ ~HasNetwork(e) => NodeNameOf(e) \notin FileWords
                /\ (HasNetwork(e) /\ e.NetworkNodes # <<>>) =>
                      Count(FileNames, NodeNameOf(e)) = 1
                /\ e.InstanceId \notin FileWords

\* A run is complete in which the first entry had no NetworkNodes and later
\* entries went into the tree.
C10_Witness ==
    /\ pc = "done"
    /\ Len(instances_topology) >= 3
    /\ ~HasNetwork(instances_topology[1])
    /\ \A j \in 2..3 : HasNetwork(instances_topology[j])
                          /\ instances_topology[j].NetworkNodes # <<>>
    /\ file # <<>>

\* --------------------------------------------------------------------- C2

\* Every topology entry that has NetworkNodes, as a record, in fetch order.
AllRecords ==
    SelectSeq([j \in 1..Len(instances_topology) |->
                  IF HasNetwork(instances_topology[j])
                  THEN [name |-> NodeNameOf(instances_topology[j]),
                        path |-> instances_topology[j].NetworkNodes,
                        real |-> TRUE]
                  ELSE [name |-> "", path |-> <<>>, real |-> FALSE]],
              LAMBDA r : r.real)

\* The tree main's build loop leaves after the records recs, or TypeError.
BuildAll(recs) ==
    LET F[j \in 0..Len(recs)] ==
            IF j = 0
            THEN EmptyDefaultDict
            ELSE IF IsError(F[j - 1])
                 THEN F[j - 1]
                 ELSE LET r == add_instance_nested(F[j - 1], recs[j].name, recs[j].path,
                                                   Len(recs[j].path), 0)
                      IN  IF IsError(r) \/ Len(recs[j].path) > 0 THEN r ELSE F[j - 1]
    IN  F[Len(recs)]

Orders(n) ==
    { f \in [1..n -> 1..n] : \A i, j \in 1..n : f[i] = f[j] => i = j }

\* The build loop is over: it went through every entry, or an insert raised.
LoopOver == Built \/ (pc = "aborted" /\ error = "add_instance_nested")

\* The run's inserts all succeeded, every other order of the same records
\* gives a tree with the same nodes and the same set of names in each leaf
\* group, and the run's leaf groups are in the run's insertion order.
MergeCommutes ==
    /\ ~(pc = "aborted" /\ error = "add_instance_nested")
    /\ \A f \in Orders(Len(AllRecords)) :
          LET t == BuildAll([j \in 1..Len(AllRecords) |-> AllRecords[f[j]]])
          IN  /\ ~IsError(t)
              /\ Range(NodePaths(t, <<>>)) = Range(NodePaths(switches, <<>>))
              /\ \A p \in Range(NodePaths(t, <<>>)) :
                    /\ NodeAt(t, p).kind = "list" <=> NodeAt(switches, p).kind = "list"
                    /\ NodeAt(t, p).kind = "list" =>
                          Range(NodeAt(t, p).items) = Range(NodeAt(switches, p).items)
    /\ \A j \in 1..Len(AllRecords) :
          /\ IsList(NodeAt(switches, AllRecords[j].path))
          /\ NodeAt(switches, AllRecords[j].path).items
                = NamesAt(AllRecords, AllRecords[j].path)

\* C2 as claimed: for any records with non-empty paths, inserting them in any
\* two orders yields trees of identical structure with identical sets of names
\* in every leaf group, each leaf group in its run's insertion order.
C2_AnyOrderSameTree ==
    (LoopOver /\ \A j \in 1..Len(AllRecords) : AllRecords[j].path # <<>>)
    => MergeCommutes

\* The same for records none of whose paths is a strict prefix of another's.
MergeCommutesWithoutPrefixes ==
    (/\ LoopOver
     /\ \A j, h \in 1..Len(AllRecords) :
          /\ AllRecords[j].path # <<>>
          /\ IsPrefix(AllRecords[j].path, AllRecords[h].path)
                => AllRecords[j].path = AllRecords[h].path)
    => MergeCommutes

\* --------------------------------------------------------------------- C5

\* C5 as claimed: a record with an empty path makes the builder fail and the
\* run abort; the build loop never gets past one.
C5_EmptyPathAborts ==
    InBuild =>
        \A j \in 1..(bi - 1) :
            HasNetwork(instances_topology[j]) => instances_topology[j].NetworkNodes # <<>>

\* --------------------------------------------------------------------- C6

\* C6 as claimed: a reader of topology.conf sees the complete previous content
\* or the complete newly serialized topology, in every state of a run.
C6_FileReplacedAtomically ==
    \/ file = PreviousTopology
    \/ Built /\ file = recurse_topo(switches)

\* --------------------------------------------------------------------- C8

\* C8 as claimed: an insert of a record with a non-empty path succeeds whatever
\* is in the tree; if the build loop stops at an entry, its path is empty.
C8_AnyDepthInsertSucceeds ==
    (pc = "aborted" /\ error = "add_instance_nested")
    => instances_topology[bi].NetworkNodes = <<>>

\* --------------------------------------------------------------------- C9

\* C9 as claimed: an empty tree serializes to no line, and a run that
\* enumerated instances and put no record in the tree is flagged: it opens no
\* file and does not complete.
C9_EmptyTopologyFlagged ==
    (Built /\ PyLen(switches) = 0) =>
        /\ recurse_topo(switches) = <<>>
        /\ instances # <<>> => (pc \notin {"recurse_topo", "done"} /\ file = PreviousTopology)

====
